---- MODULE Spec2Model ----
(***************************************************************************)
(* Experimentation and adaptive-assignment engine of the Airline Revenue   *)
(* Optimization System.                                                    *)
(*                                                                         *)
(* Two implementations are modelled side by side:                          *)
(*   - AdvancedExperiment / PersonalizationExperimentManager               *)
(*     (src/common/feature/AdvancedExperimentFramework.py): synchronous,   *)
(*     in-memory; every method is one atomic action.                       *)
(*   - ABTestingEngine (src/data_analytics/engines/ab_testing_engine.py):  *)
(*     asyncio coroutines over a Redis store; every Redis round trip is an *)
(*     await point, hence one step of a task.                              *)
(*                                                                         *)
(* Numbers.  Variant weights are dyadic rationals in units of 1/WeightUnit *)
(* (so that Python's float sums are exact), hash buckets are the integers  *)
(* the code computes before dividing, and every float comparison of the    *)
(* code is cross-multiplied into an integer comparison.                    *)
(***************************************************************************)
EXTENDS Integers, Sequences, FiniteSets, TLC

(***************************************************************************)
(* Bounds of the model.                                                    *)
(***************************************************************************)
MaxClock == 1          \* distinct readings of datetime.now()
MaxImpressions == 3    \* assignments per run of an experiment (specification Spec)
MaxEvents == 2         \* length of conversion_events
MaxHistory == 3        \* length of metrics_history
MaxWarmupAssigns == 11 \* assignments per run under SpecWarmup
MaxFallbackAssigns == 21   \* assignments of one run through the bandit fallback
MaxCalls == 5          \* operations begun on the ABTestingEngine
MaxConversions == 2    \* conversions counted in a stored test record
MaxSigImpressions == 2000 \* assignments per run under SpecSignificance
MaxSigEvents == 229    \* length of conversion_events under SpecSignificance
MaxSigHistory == 462   \* length of metrics_history under SpecSignificance
MaxScenarioEvents == 252  \* length of conversion_events under SpecScenario
MaxScenarioHistory == 506 \* length of metrics_history under SpecScenario

(***************************************************************************)
(* Program constants.                                                      *)
(***************************************************************************)
WeightUnit == 256            \* weight 1.0, in units of 1/256
WeightTolerancePct == 1      \* abs(total_weight - 1.0) > 0.01
MinVariants == 2             \* len(self.variants) < 2
DurationDays == 14           \* duration_days default / create_experiment default
MaxConversionDropPct == 5    \* guardrails["max_conversion_drop"] = 0.05
MinimumSampleSize == 1000    \* self.minimum_sample_size
TrafficAllocationPct == 100  \* self.traffic_allocation = 1.0
WarmupPulls == 10            \* "Ensure each arm is pulled at least 10 times"
NoTime == -1                 \* Optional[datetime] = None
MinExposure == 100           \* if data['exposure'] > 100
TestTrafficAllocationPct == 50  \* traffic_allocation=0.5

None == "None"

ExperimentId == "dynamic_pricing_personalization_v3"
Users == {"user_1", "user_3"}
LoyaltyTiers == {"gold", "basic"}
Values == {2}

(* The values of ExperimentType that the assignment code tells apart.      *)
ExperimentTypes == {"ab_test", "multi_armed_bandit", "personalized"}

V(id, w) == [id |-> id, weight |-> w]

Config(type, list, targeting) ==
    [type |-> type, variants |-> list, targeting |-> targeting]

NoTargeting == << >>
GoldOnly == [loyalty_tier |-> {"gold"}]

(* The config dicts create_experiment is called with.                      *)
ExperimentConfigs ==
    { Config("ab_test", << V("control", 128), V("treatment", 128) >>, NoTargeting),
      \* 0.9921875: off 1.0, within the tolerance
      Config("ab_test", << V("treatment", 126), V("control", 128) >>, GoldOnly),
      Config("multi_armed_bandit",
             << V("control", 128), V("treatment", 128) >>, NoTargeting),
      Config("personalized", << V("control", 128), V("treatment", 128) >>, NoTargeting),
      \* weights summing to 0.75
      Config("ab_test", << V("control", 128), V("treatment", 64) >>, NoTargeting),
      \* a single variant
      Config("ab_test", << V("control", 256) >>, NoTargeting),
      \* one id listed twice: the dict keeps one variant of weight 0.5
      Config("ab_test", << V("control", 128), V("control", 128) >>, NoTargeting),
      \* not a value of ExperimentType
      Config("static_ab", << V("control", 128), V("treatment", 128) >>, NoTargeting) }

Contexts == [user_id : Users, loyalty_tier : LoyaltyTiers]

VARIABLES
    now,                      \* the reading datetime.now() returns
    experiments,              \* PersonalizationExperimentManager.experiments (its keys)
    experiment_type,
    variant_ids,              \* list(self.variants.keys()): dict insertion order
    variants,                 \* self.variants: id -> VariantConfiguration
    targeting_criteria,
    status,
    start_time,
    end_time,
    participant_assignments,  \* user_id -> variant id, None when absent
    conversion_events,
    metrics_history,          \* len(self.metrics_history)
    logged_reason,            \* the reason the last stop_experiment logged
    ret,                      \* the last call and what it returned
    \* ABTestingEngine
    user_hash,                \* hash(f"{test_id}_{user_id}") % 100 in this process
    redis_test,               \* the value stored under test:<test_id>
    redis_assignment,         \* the values stored under assignment:<test_id>:<user_id>
    redis_conversion,         \* the values stored under conversion:<test_id>:<timestamp>
    active_tests,             \* whether test_id is a key of self.active_tests
    tasks,                    \* the coroutines in flight, each at an await
    calls                     \* engine operations begun so far

advvars == << experiments, experiment_type, variant_ids, variants,
              targeting_criteria, status, start_time, end_time,
              participant_assignments, conversion_events, metrics_history, logged_reason,
              ret >>

abvars == << user_hash, redis_test, redis_assignment, redis_conversion,
             active_tests, tasks, calls >>

vars == << now, advvars, abvars >>

Abs(x) == IF x < 0 THEN -x ELSE x

Returned(op, user, val) == [op |-> op, user |-> user, val |-> val]

(* The reason passed to stop_experiment, which logs it: the default        *)
(* "Manual stop", f"Guardrail triggered: {drop:.2%} conversion drop in     *)
(* {variant_id}", or f"Early stop: Statistical significance achieved for   *)
(* {winner}".                                                              *)
Reason(kind, variant_id) == [kind |-> kind, variant |-> variant_id]
NoReason == Reason(None, None)
ManualStop == Reason("Manual stop", None)
GuardrailTriggered(variant_id) == Reason("Guardrail triggered", variant_id)
EarlyStop(winner) == Reason("Early stop", winner)

(***************************************************************************)
(* VariantConfiguration and the dict built by AdvancedExperiment.__init__. *)
(***************************************************************************)
VariantConfiguration(w) ==
    [weight |-> w, conversions |-> 0, impressions |-> 0, revenue |-> 0,
     reward_sum |-> 0, arm_pulls |-> 0]

RECURSIVE DictKeys(_)
(* Keys of {v.id: v for v in variants}, in insertion order: a repeated id   *)
(* keeps the place of its first occurrence.                                *)
DictKeys(list) ==
    IF list = << >> THEN << >>
    ELSE LET front == DictKeys(SubSeq(list, 1, Len(list) - 1))
             last == list[Len(list)].id
         IN IF \E i \in 1..Len(front) : front[i] = last
            THEN front ELSE Append(front, last)

(* Value of {v.id: v for v in variants}[id]: the last entry with that id.  *)
DictValue(list, id) ==
    LET idx == { i \in 1..Len(list) : list[i].id = id }
        last == CHOOSE i \in idx : \A j \in idx : j <= i
    IN list[last]

RECURSIVE SumOver(_, _, _)
SumOver(vs, ids, field) ==
    IF ids = << >> THEN 0
    ELSE vs[Head(ids)][field] + SumOver(vs, Tail(ids), field)

(***************************************************************************)
(* AdvancedExperiment._validate_configuration                              *)
(***************************************************************************)
validate_configuration ==
    LET total_weight == SumOver(variants, variant_ids, "weight")
    IN /\ ~ (100 * Abs(total_weight - WeightUnit) > WeightTolerancePct * WeightUnit)
       /\ ~ (Len(variant_ids) < MinVariants)

(***************************************************************************)
(* Hashing.  int(md5("<experiment_id>_<user_id>").hexdigest(), 16) % 100   *)
(* and int(md5("<experiment_id>_<user_id>_assignment").hexdigest(), 16)    *)
(* % 10000, computed for ExperimentId and each user id of Users.           *)
(***************************************************************************)
AllocationBucket(u) ==
    CASE u = "user_1" -> 98
      [] u = "user_3" -> 76

AssignmentBucket(u) ==
    CASE u = "user_1" -> 968
      [] u = "user_3" -> 9704

(***************************************************************************)
(* AdvancedExperiment._is_user_eligible (the loyalty_tier criterion)       *)
(***************************************************************************)
is_user_eligible(ctx) ==
    "loyalty_tier" \in DOMAIN targeting_criteria
        => ctx.loyalty_tier \in targeting_criteria.loyalty_tier

(***************************************************************************)
(* AdvancedExperiment._is_in_traffic_allocation:                           *)
(* (hash_value % 100) / 100.0 < self.traffic_allocation                    *)
(***************************************************************************)
is_in_traffic_allocation(ctx) ==
    AllocationBucket(ctx.user_id) < TrafficAllocationPct

(***************************************************************************)
(* AdvancedExperiment._get_random_assignment: walk the variants in dict    *)
(* order; random_value <= cumulative_weight, else the first variant.       *)
(***************************************************************************)
RECURSIVE cumulative_walk(_, _, _)
cumulative_walk(ids, cumulative_weight, bucket) ==
    IF ids = << >> THEN None
    ELSE LET cum == cumulative_weight + variants[Head(ids)].weight
         IN IF bucket * WeightUnit <= 10000 * cum
            THEN Head(ids)
            ELSE cumulative_walk(Tail(ids), cum, bucket)

random_assignment(bucket) ==
    LET hit == cumulative_walk(variant_ids, 0, bucket)
    IN IF hit # None THEN hit ELSE variant_ids[1]

get_random_assignment(ctx) == random_assignment(AssignmentBucket(ctx.user_id))

(***************************************************************************)
(* AdvancedExperiment._get_bandit_assignment.  The warm-up branch and the  *)
(* zero-pull branch are computed as the code computes them.  The UCB score *)
(* avg_reward + 0.1 * sqrt(2 ln(total_pulls) / arm_pulls) is irrational:   *)
(* where the choice rests on it, every variant is a possible result.       *)
(***************************************************************************)
FirstWith(ids, P(_)) ==
    LET idx == { i \in 1..Len(ids) : P(ids[i]) }
    IN IF idx = {} THEN None
       ELSE ids[CHOOSE i \in idx : \A j \in idx : i <= j]

get_bandit_assignment ==
    LET total_pulls == SumOver(variants, variant_ids, "arm_pulls")
        UnderWarmup(id) == variants[id].arm_pulls < WarmupPulls
        Unexplored(id) == variants[id].arm_pulls = 0
        warm == FirstWith(variant_ids, UnderWarmup)
        zero == FirstWith(variant_ids, Unexplored)
    IN IF total_pulls < Len(variant_ids) * WarmupPulls /\ warm # None
       THEN {warm}
       ELSE IF zero # None THEN {zero}
       ELSE { variant_ids[i] : i \in 1..Len(variant_ids) }

(* AdvancedExperiment._get_personalized_assignment: segment_strategies is  *)
(* the empty dict of __init__, so the bandit fallback decides.             *)
get_personalized_assignment == get_bandit_assignment

(***************************************************************************)
(* AdvancedExperiment._get_variant_assignment                              *)
(***************************************************************************)
get_variant_assignment(ctx) ==
    IF experiment_type = "multi_armed_bandit" THEN get_bandit_assignment
    ELSE IF experiment_type = "personalized" THEN get_personalized_assignment
    ELSE {get_random_assignment(ctx)}

(***************************************************************************)
(* Statistics read by the guardrails.                                      *)
(***************************************************************************)
has_minimum_sample_size(vs, id) == vs[id].impressions >= MinimumSampleSize

(* _calculate_significance(id) >= 0.95, i.e. z_score >= 1.96, with         *)
(* z = |p1 - p2| / sqrt(p_pool (1 - p_pool) (1/n1 + 1/n2)); a negative     *)
(* radicand raises inside the method, which then returns 0.0.              *)
(* With d = c1 n2 - c2 n1, C = c1 + c2 and N = n1 + n2 the square of z is  *)
(* d^2 N / (C (N - C) n1 n2), and z >= 1.96 is                             *)
(* 10000 d^2 N >= 38416 C (N - C) n1 n2.  At a thousand impressions the    *)
(* products exceed 32 bits: they are formed as sequences of digits in base *)
(* 1000, lowest digit first.                                               *)
RECURSIVE Digits(_)
Digits(n) == IF n = 0 THEN << >> ELSE << n % 1000 >> \o Digits(n \div 1000)

RECURSIVE TimesCarry(_, _, _)
TimesCarry(digits, k, carry) ==
    IF digits = << >> THEN Digits(carry)
    ELSE LET x == Head(digits) * k + carry
         IN << x % 1000 >> \o TimesCarry(Tail(digits), k, x \div 1000)

Times(digits, k) == TimesCarry(digits, k, 0)

RECURSIVE Compare(_, _)
Compare(a, b) ==
    IF a = << >> /\ b = << >> THEN 0
    ELSE LET ha == IF a = << >> THEN 0 ELSE Head(a)
             hb == IF b = << >> THEN 0 ELSE Head(b)
             high == Compare(IF a = << >> THEN a ELSE Tail(a),
                             IF b = << >> THEN b ELSE Tail(b))
         IN IF high # 0 THEN high
            ELSE IF ha > hb THEN 1 ELSE IF ha < hb THEN -1 ELSE 0

(* z_score >= 1.96 for variant id against the control; False where the    *)
(* method returns 0.0 before it has a z_score (p1 == p2, se == 0, or an    *)
(* exception from the square root of a negative number).                   *)
z_score_ge196(vs, id) ==
    LET c1 == vs[id].conversions
        n1 == vs[id].impressions
        c2 == vs["control"].conversions
        n2 == vs["control"].impressions
        d == Abs(c1 * n2 - c2 * n1)
    IN IF d = 0 \/ c1 + c2 <= 0 \/ n1 + n2 - c1 - c2 <= 0 THEN FALSE
       ELSE Compare(Times(Times(Times(Digits(10000), d), d), n1 + n2),
                    Times(Times(Times(Times(Digits(38416), c1 + c2),
                                      n1 + n2 - c1 - c2), n1), n2)) >= 0

calculate_significance_ge95(vs, id) ==
    IF "control" \notin DOMAIN vs \/ id = "control" THEN FALSE
    ELSE IF \/ vs[id].impressions < MinimumSampleSize
            \/ vs["control"].impressions < MinimumSampleSize
    THEN FALSE
    ELSE z_score_ge196(vs, id)

(* The significance of a variant computed at any number of impressions.    *)
significance_without_sample_size(vs, id) ==
    /\ "control" \in DOMAIN vs
    /\ id # "control"
    /\ vs[id].impressions > 0
    /\ vs["control"].impressions > 0
    /\ z_score_ge196(vs, id)

(* metrics[id].statistical_significance >= 0.95 in calculate_metrics       *)
statistical_significance_ge95(vs, id) ==
    has_minimum_sample_size(vs, id) /\ calculate_significance_ge95(vs, id)

(* metrics[id].conversion_rate and metrics[id].lift in calculate_metrics,   *)
(* as fractions << numerator, denominator >>; both default to 0.0.         *)
conversion_rate(vs, id) ==
    IF vs[id].impressions > 0
    THEN << vs[id].conversions, vs[id].impressions >>
    ELSE << 0, 1 >>

lift(vs, id) ==
    LET cc == IF "control" \in DOMAIN vs THEN vs["control"].conversions ELSE 0
        ic == IF "control" \in DOMAIN vs /\ vs["control"].impressions > 1
              THEN vs["control"].impressions ELSE 1
        rate == conversion_rate(vs, id)
    IN IF id # "control" /\ "control" \in DOMAIN vs /\ cc > 0
       THEN << rate[1] * ic - cc * rate[2], cc * rate[2] >>
       ELSE << 0, 1 >>

(* AdvancedExperiment._calculate_confidence_interval, by the shape of what *)
(* it returns: "zero" is (0.0, 0.0), returned without impressions and when *)
(* math.sqrt raises on a negative p (1 - p); "clipped" is                  *)
(* (max(0.0, p - margin), min(1.0, p + margin)) with margin >= 0.          *)
calculate_confidence_interval(vs, id) ==
    LET c == vs[id].conversions
        n == vs[id].impressions
    IN IF n = 0 THEN "zero"
       ELSE IF c * (n - c) < 0 THEN "zero"
       ELSE "clipped"

(* metrics[id].confidence_interval in calculate_metrics: the default       *)
(* (0.0, 0.0) below the minimum sample size.                               *)
confidence_interval(vs, id) ==
    IF has_minimum_sample_size(vs, id)
    THEN calculate_confidence_interval(vs, id)
    ELSE "zero"

(* conversion_rate of a > conversion_rate of b (0.0 when b is None)        *)
RateGreater(vs, a, b) ==
    LET ca == vs[a].conversions
        ia == vs[a].impressions
    IN IF ia = 0 THEN FALSE
       ELSE IF b = None THEN ca > 0
       ELSE IF vs[b].impressions = 0 THEN ca > 0
       ELSE ca * vs[b].impressions > vs[b].conversions * ia

(***************************************************************************)
(* AdvancedExperiment.get_winning_variant (its result)                     *)
(***************************************************************************)
RECURSIVE winner_scan(_, _, _)
winner_scan(vs, ids, best_variant) ==
    IF ids = << >> THEN best_variant
    ELSE winner_scan(vs, Tail(ids),
             IF statistical_significance_ge95(vs, Head(ids))
                /\ RateGreater(vs, Head(ids), best_variant)
             THEN Head(ids) ELSE best_variant)

winning_variant(vs) == winner_scan(vs, variant_ids, None)

(* _check_experiment_guardrails, first check: some non-control variant     *)
(* has (control_rate - rate) / control_rate > max_conversion_drop.         *)
conversion_drop(vs, id) ==
    LET cc == vs["control"].conversions
        ic == vs["control"].impressions
        cv == vs[id].conversions
        iv == vs[id].impressions
    IN /\ ic > 0 /\ cc > 0
       /\ IF iv = 0 THEN TRUE
          ELSE (100 - MaxConversionDropPct) * cc * iv > 100 * cv * ic

guardrail_drop(vs) ==
    /\ "control" \in DOMAIN vs
    /\ \E id \in DOMAIN vs : id # "control" /\ conversion_drop(vs, id)

(* The variant the loop over metrics.items() stops at: the first one in    *)
(* dict order, other than control, with such a drop.                       *)
dropped_variant(vs) ==
    LET Dropped(id) == id # "control" /\ conversion_drop(vs, id)
    IN FirstWith(variant_ids, Dropped)

(* guardrails["auto_stop_on_significance"], set in __init__ and written by *)
(* no method.                                                              *)
auto_stop_on_significance == TRUE

(* The second check stopping for a variant that beats the control at the   *)
(* minimum sample size, whatever its significance.                         *)
guardrail_any_lift(vs) ==
    \E id \in DOMAIN vs :
        /\ id # "control"
        /\ has_minimum_sample_size(vs, id)
        /\ RateGreater(vs, id, "control")

(* _check_experiment_guardrails, second check.                             *)
guardrail_significance(vs) ==
    LET winner == winning_variant(vs)
    IN /\ auto_stop_on_significance
       /\ winner # None
       /\ has_minimum_sample_size(vs, winner)
       /\ statistical_significance_ge95(vs, winner)

(***************************************************************************)
(* PersonalizationExperimentManager.create_experiment                      *)
(***************************************************************************)
create_experiment(config) ==
    /\ UNCHANGED abvars
    /\ experiments = {}
    /\ IF config.type \notin ExperimentTypes
       THEN /\ ret' = Returned("create_experiment", None, "ValueError")
            /\ UNCHANGED << now, experiments, experiment_type, variant_ids, variants,
                            targeting_criteria, status, start_time, end_time,
                            participant_assignments, conversion_events,
                            metrics_history, logged_reason >>
       ELSE /\ experiments' = {ExperimentId}
            /\ experiment_type' = config.type
            /\ variant_ids' = DictKeys(config.variants)
            /\ variants' =
                   [id \in { config.variants[i].id : i \in 1..Len(config.variants) } |->
                       VariantConfiguration(DictValue(config.variants, id).weight)]
            /\ targeting_criteria' = config.targeting
            /\ status' = "draft"
            /\ start_time' = NoTime
            /\ end_time' = NoTime
            /\ participant_assignments' = [u \in Users |-> None]
            /\ conversion_events' = << >>
            /\ metrics_history' = 0
            /\ logged_reason' = NoReason
            /\ ret' = Returned("create_experiment", None, ExperimentId)
            /\ UNCHANGED now

(***************************************************************************)
(* AdvancedExperiment.start_experiment                                     *)
(***************************************************************************)
start_experiment ==
    /\ UNCHANGED abvars
    /\ experiments # {}
    /\ IF ~ validate_configuration
       THEN /\ ret' = Returned("start_experiment", None, "False")
            /\ UNCHANGED << now, experiments, experiment_type, variant_ids, variants,
                            targeting_criteria, status, start_time, end_time,
                            participant_assignments, conversion_events,
                            metrics_history, logged_reason >>
       ELSE /\ status' = "running"
            /\ start_time' = now
            /\ end_time' = now + DurationDays
            /\ variants' = [id \in DOMAIN variants |->
                               [variants[id] EXCEPT !.impressions = 0,
                                                    !.conversions = 0,
                                                    !.revenue = 0,
                                                    !.arm_pulls = 0,
                                                    !.reward_sum = 0]]
            /\ ret' = Returned("start_experiment", None, "True")
            /\ UNCHANGED << now, experiments, experiment_type, variant_ids,
                            targeting_criteria, participant_assignments,
                            conversion_events, metrics_history, logged_reason >>

(***************************************************************************)
(* AdvancedExperiment.assign_variant; op names the public method that ran  *)
(* it and cap bounds the impressions of one run of the experiment.         *)
(***************************************************************************)
Assigned(ctx, variant_id) ==
    /\ participant_assignments' =
           [participant_assignments EXCEPT ![ctx.user_id] = variant_id]
    /\ variants' =
           [variants EXCEPT
               ![variant_id].impressions = @ + 1,
               ![variant_id].arm_pulls =
                   IF experiment_type = "multi_armed_bandit" THEN @ + 1 ELSE @]

assign(op, ctx, cap) ==
    /\ UNCHANGED abvars
    /\ experiments # {}
    /\ IF \/ status # "running"
          \/ ~ is_user_eligible(ctx)
          \/ ~ is_in_traffic_allocation(ctx)
       THEN /\ ret' = Returned(op, ctx.user_id, None)
            /\ UNCHANGED << participant_assignments, variants >>
       ELSE /\ SumOver(variants, variant_ids, "impressions") < cap
            /\ \E variant_id \in get_variant_assignment(ctx) :
                   /\ Assigned(ctx, variant_id)
                   /\ ret' = Returned(op, ctx.user_id, variant_id)
    /\ UNCHANGED << now, experiments, experiment_type, variant_ids,
                    targeting_criteria, status, start_time, end_time,
                    conversion_events, metrics_history, logged_reason >>

assign_variant(ctx) == assign("assign_variant", ctx, MaxImpressions)

(***************************************************************************)
(* AdvancedExperiment.get_variant_config: assign_variant, then the config  *)
(* payload of the variant (ret keeps the variant id that selects it).      *)
(***************************************************************************)
get_variant_config(ctx) == assign("get_variant_config", ctx, MaxImpressions)

(***************************************************************************)
(* AdvancedExperiment.assign_variant on an experiment whose attribute      *)
(* segment_strategies (segment -> variant id) has been filled in.          *)
(* _get_personalized_assignment returns the id the dict holds for the      *)
(* segment of the user; assign_variant stores it in participant_assignments*)
(* and then reads self.variants[variant_id], which raises KeyError for an  *)
(* id that is not a variant: the except clause returns None.               *)
(***************************************************************************)
determine_user_segment(ctx) ==
    IF ctx.loyalty_tier \in {"platinum", "diamond"} THEN "high_value"
    ELSE "leisure_traveler"

(* The dicts segment_strategies is set to.                                 *)
SegmentStrategies ==
    { [leisure_traveler |-> "treatment"], [leisure_traveler |-> "variant_x"] }

get_personalized_assignment_segment(ctx, segment_strategies) ==
    LET user_segment == determine_user_segment(ctx)
    IN IF user_segment \in DOMAIN segment_strategies
       THEN {segment_strategies[user_segment]}
       ELSE get_bandit_assignment

assign_variant_segment(ctx, segment_strategies) ==
    /\ UNCHANGED abvars
    /\ experiments # {}
    /\ IF \/ status # "running"
          \/ ~ is_user_eligible(ctx)
          \/ ~ is_in_traffic_allocation(ctx)
       THEN /\ ret' = Returned("assign_variant", ctx.user_id, None)
            /\ UNCHANGED << participant_assignments, variants >>
       ELSE \E variant_id \in
                   (IF experiment_type = "personalized"
                    THEN get_personalized_assignment_segment(ctx, segment_strategies)
                    ELSE get_variant_assignment(ctx)) :
                IF variant_id \in DOMAIN variants
                THEN /\ SumOver(variants, variant_ids, "impressions") < MaxImpressions
                     /\ Assigned(ctx, variant_id)
                     /\ ret' = Returned("assign_variant", ctx.user_id, variant_id)
                ELSE /\ participant_assignments' =
                            [participant_assignments EXCEPT ![ctx.user_id] = variant_id]
                     /\ variants' = variants
                     /\ ret' = Returned("assign_variant", ctx.user_id, None)
    /\ UNCHANGED << now, experiments, experiment_type, variant_ids,
                    targeting_criteria, status, start_time, end_time,
                    conversion_events, metrics_history, logged_reason >>

(***************************************************************************)
(* AdvancedExperiment.stop_experiment, as the fields it writes:            *)
(* status, end_time, and two appends to metrics_history (calculate_metrics *)
(* and get_winning_variant).  The reason is logged, not stored.            *)
(***************************************************************************)
Stopped(history, why) ==
    /\ status' = "completed"
    /\ end_time' = now
    /\ metrics_history' = history + 2
    /\ logged_reason' = why

stop_experiment ==
    /\ UNCHANGED abvars
    /\ experiments # {}
    /\ metrics_history < MaxHistory
    /\ Stopped(metrics_history, ManualStop)
    /\ ret' = Returned("stop_experiment", None, "True")
    /\ UNCHANGED << now, experiments, experiment_type, variant_ids, variants,
                    targeting_criteria, start_time, participant_assignments,
                    conversion_events >>

(***************************************************************************)
(* AdvancedExperiment._check_experiment_guardrails on counters vs:         *)
(* calculate_metrics, the conversion-drop check, then get_winning_variant  *)
(* and the significance check.                                             *)
(***************************************************************************)
check_experiment_guardrails(vs) ==
    IF guardrail_drop(vs)
    THEN Stopped(metrics_history + 1, GuardrailTriggered(dropped_variant(vs)))
    ELSE IF guardrail_significance(vs)
    THEN Stopped(metrics_history + 2, EarlyStop(winning_variant(vs)))
    ELSE /\ metrics_history' = metrics_history + 2
         /\ UNCHANGED << status, end_time, logged_reason >>

(***************************************************************************)
(* AdvancedExperiment.track_conversion; max_events and max_history bound   *)
(* the lengths of conversion_events and metrics_history.                   *)
(***************************************************************************)
Converted(variant_id, value) ==
    [variants EXCEPT
        ![variant_id].conversions = @ + 1,
        ![variant_id].revenue = @ + value,
        ![variant_id].reward_sum =
            IF experiment_type = "multi_armed_bandit" THEN @ + value ELSE @]

track(user_id, value, max_events, max_history) ==
    /\ UNCHANGED abvars
    /\ experiments # {}
    /\ IF \/ participant_assignments[user_id] = None
          \/ participant_assignments[user_id] \notin DOMAIN variants  \* KeyError
       THEN /\ ret' = Returned("track_conversion", user_id, "False")
            /\ UNCHANGED << variants, conversion_events, status, end_time,
                            metrics_history, logged_reason >>
       ELSE LET variant_id == participant_assignments[user_id]
            IN /\ Len(conversion_events) < max_events
               /\ metrics_history < max_history
               /\ conversion_events' =
                      Append(conversion_events,
                             [user_id |-> user_id, variant_id |-> variant_id,
                              value |-> value])
               /\ variants' = Converted(variant_id, value)
               /\ check_experiment_guardrails(Converted(variant_id, value))
               /\ ret' = Returned("track_conversion", user_id, "True")
    /\ UNCHANGED << now, experiments, experiment_type, variant_ids,
                    targeting_criteria, start_time, participant_assignments >>

track_conversion(user_id, value) == track(user_id, value, MaxEvents, MaxHistory)

(* calculate_metrics consuming the conversion events it has read.          *)
calculate_metrics_consuming_events ==
    /\ UNCHANGED abvars
    /\ experiments # {}
    /\ metrics_history < MaxHistory
    /\ metrics_history' = metrics_history + 1
    /\ conversion_events' = << >>
    /\ ret' = Returned("calculate_metrics", None, "metrics")
    /\ UNCHANGED << now, experiments, experiment_type, variant_ids, variants,
                    targeting_criteria, status, start_time, end_time,
                    participant_assignments, logged_reason >>

(***************************************************************************)
(* AdvancedExperiment.calculate_metrics: appends the computed metrics to   *)
(* metrics_history.                                                        *)
(***************************************************************************)
calculate(max_history) ==
    /\ UNCHANGED abvars
    /\ experiments # {}
    /\ metrics_history < max_history
    /\ metrics_history' = metrics_history + 1
    /\ ret' = Returned("calculate_metrics", None, "metrics")
    /\ UNCHANGED << now, experiments, experiment_type, variant_ids, variants,
                    targeting_criteria, status, start_time, end_time,
                    participant_assignments, conversion_events, logged_reason >>

calculate_metrics == calculate(MaxHistory)

(***************************************************************************)
(* AdvancedExperiment.get_winning_variant; max_history bounds the length   *)
(* of metrics_history, as it does in calculate.                            *)
(***************************************************************************)
get_winner(max_history) ==
    /\ UNCHANGED abvars
    /\ experiments # {}
    /\ metrics_history < max_history
    /\ metrics_history' = metrics_history + 1
    /\ ret' = Returned("get_winning_variant", None, winning_variant(variants))
    /\ UNCHANGED << now, experiments, experiment_type, variant_ids, variants,
                    targeting_criteria, status, start_time, end_time,
                    participant_assignments, conversion_events, logged_reason >>

get_winning_variant == get_winner(MaxHistory)

(***************************************************************************)
(*                          ABTestingEngine                                *)
(***************************************************************************)
Tasks == {"t1", "t2"}
(* Values of hash(f"{test_id}_{user_id}") % 100, which Python fixes per    *)
(* process: the users fall on the two sides of a 50/50 split, or on one.   *)
SplitHash == [u \in Users |-> IF u = "user_1" THEN 49 ELSE 50]
UserHashes == { SplitHash, [u \in Users |-> 50] }
Revenues == {1}
(* The reasons the engine passes to _stop_test (_check_early_stopping) and *)
(* to _rollback_test (_check_rollback_criteria).                           *)
StopReasons == {"Statistical significance achieved"}
RollbackReasons == {"Variant treatment conversion rate below threshold"}

S(id, split) == [id |-> id, traffic_split |-> split]

TestConfiguration(type, power, conf, list) ==
    [test_type |-> type, traffic_allocation |-> TestTrafficAllocationPct,
     statistical_power |-> power, confidence_level |-> conf, variants |-> list]

(* The TestConfiguration objects create_test is called with.  test_type is *)
(* either a member of the TestType enum or the member's value, a string;   *)
(* power and confidence level are in percent.                              *)
TestConfigurations ==
    { TestConfiguration("AB", 80, 95, << S("control", 50), S("treatment", 50) >>),
      TestConfiguration("BANDIT", 50, 99, << S("control", 50), S("treatment", 50) >>),
      TestConfiguration("AB", 50, 99,
                        << S("control", 50), S("treatment", 25), S("variant_b", 25) >>),
      TestConfiguration("TestType.BANDIT", 80, 95,
                        << S("control", 50), S("treatment", 50) >>),
      TestConfiguration("AB", 80, 95, << S("control", 50), S("treatment", 40) >>),
      TestConfiguration("AB", 80, 95, << S("control", 100) >>),
      TestConfiguration("AB", 80, 95, << S("control", 50), S("control", 50) >>) }

TestTypeMembers == {"TestType.AB", "TestType.MULTIVARIATE", "TestType.BANDIT",
                    "TestType.SEQUENTIAL"}

(* json.dumps(asdict(config)) raises TypeError on a member of the plain    *)
(* Enum TestType; a string is written, and read back, as it is.            *)
JsonSerializable(config) == config.test_type \notin TestTypeMembers

(* config.test_type == TestType.BANDIT: only the enum member equals it.    *)
is_bandit(config) == config.test_type = "TestType.BANDIT"

(***************************************************************************)
(* ABTestingEngine._calculate_sample_size(power, confidence_level, 0.05):  *)
(* int(2 * ((norm.ppf(1 - alpha/2) + norm.ppf(power)) / 0.05) ** 2) with   *)
(* alpha the confidence level, tabulated for the configurations above.     *)
(***************************************************************************)
calculate_sample_size(power, alpha) ==
    CASE power = 80 /\ alpha = 95 -> 654
      [] power = 50 /\ alpha = 99 -> 0

RECURSIVE SumSplits(_)
SumSplits(list) ==
    IF list = << >> THEN 0 ELSE Head(list).traffic_split + SumSplits(Tail(list))

(***************************************************************************)
(* ABTestingEngine._validate_test_config: the ValueError it raises, if any *)
(***************************************************************************)
validate_test_config(config) ==
    IF Len(config.variants) < MinVariants THEN "ValueError"
    ELSE IF 10 * Abs(SumSplits(config.variants) - 100) > 1 THEN "ValueError"
    ELSE None

NoTest == [status |-> "absent"]

NoAssignment == [variant |-> None]

VariantCounters == [exposure |-> 0, conversions |-> 0, revenue |-> 0]

(* test_data built by create_test, as json.loads reads it back             *)
NewTest(config) ==
    [config |-> config,
     status |-> "DRAFT",
     required_sample_size |->
         calculate_sample_size(config.statistical_power, config.confidence_level),
     variants |-> [id \in { config.variants[i].id : i \in 1..Len(config.variants) } |->
                      VariantCounters],
     stop_reason |-> None,
     termination_reason |-> None]

Idle ==
    [op |-> "idle", pc |-> "done", user_id |-> None, revenue |-> 0, reason |-> None,
     test_data |-> NoTest, variant |-> None, result |-> None]

Call(op, pc) == [Idle EXCEPT !.op = op, !.pc = pc]

(* A finished call keeps what the caller sees of it: the operation, the    *)
(* user it was for, the result, and for assign_variant the variant whose   *)
(* assignment it tracked (None when it took the fallback).                 *)
Done(task, result) ==
    [Idle EXCEPT !.op = task.op, !.user_id = task.user_id, !.result = result,
                 !.variant = IF task.op = "assign_variant" THEN task.variant ELSE None]

(* A call begins on a free task, within the bound on calls; with no call   *)
(* in flight it is t1 that takes it (the tasks are interchangeable).       *)
InFlight(t) == tasks[t].pc # "done"

Begin(t) ==
    /\ ~ InFlight(t)
    /\ t = "t2" => InFlight("t1")
    /\ calls < MaxCalls
    /\ calls' = calls + 1

Step(t, op, pc) ==
    /\ tasks[t].op = op
    /\ tasks[t].pc = pc
    /\ UNCHANGED calls


(***************************************************************************)
(* ABTestingEngine.create_test: validation, then one write to Redis.       *)
(***************************************************************************)
create_test(t, config) ==
    /\ Begin(t)
    /\ redis_test = NoTest
    /\ IF validate_test_config(config) # None
       THEN /\ tasks' = [tasks EXCEPT ![t] =
                           Done(Call("create_test", "done"), validate_test_config(config))]
            /\ UNCHANGED redis_test
       ELSE IF ~ JsonSerializable(config)
       THEN /\ tasks' = [tasks EXCEPT ![t] =
                           Done(Call("create_test", "done"), "TypeError")]
            /\ UNCHANGED redis_test
       ELSE /\ redis_test' = NewTest(config)
            /\ tasks' = [tasks EXCEPT ![t] = Done(Call("create_test", "done"), "test_id")]
    /\ UNCHANGED << now, advvars, user_hash, redis_assignment, redis_conversion, active_tests >>

(***************************************************************************)
(* ABTestingEngine.start_test: _get_test, then _store_test.  A test of     *)
(* type TestType.BANDIT would call self._initialize_bandit, which the      *)
(* class does not define.                                                  *)
(***************************************************************************)
start_test_get(t) ==
    /\ Begin(t)
    /\ tasks' = [tasks EXCEPT ![t] =
           IF redis_test = NoTest
           THEN Done(Call("start_test", "done"), "ValueError")
           ELSE IF is_bandit(redis_test.config)
           THEN Done(Call("start_test", "done"), "AttributeError")
           ELSE [Call("start_test", "store") EXCEPT !.test_data = redis_test]]
    /\ UNCHANGED << now, advvars, user_hash, redis_test, redis_assignment, redis_conversion,
                    active_tests >>

start_test_store(t) ==
    /\ Step(t, "start_test", "store")
    /\ redis_test' = [tasks[t].test_data EXCEPT !.status = "RUNNING"]
    /\ active_tests' = TRUE
    /\ tasks' = [tasks EXCEPT ![t] = Done(@, "True")]
    /\ UNCHANGED << now, advvars, user_hash, redis_assignment, redis_conversion >>

(***************************************************************************)
(* ABTestingEngine._static_assignment                                      *)
(***************************************************************************)
RECURSIVE split_walk(_, _, _)
split_walk(list, cumulative, bucket) ==
    IF list = << >> THEN None
    ELSE IF bucket < cumulative + Head(list).traffic_split
    THEN Head(list).id
    ELSE split_walk(Tail(list), cumulative + Head(list).traffic_split, bucket)

static_assignment(user_id, config) ==
    LET hit == split_walk(config.variants, 0, user_hash[user_id])
    IN IF hit # None THEN hit ELSE config.variants[1].id

(***************************************************************************)
(* ABTestingEngine.assign_variant: _get_test, the choice of the variant,   *)
(* then _track_assignment.  _bandit_assignment (for a test whose type is   *)
(* the enum member) draws from a random distribution over the arms.        *)
(***************************************************************************)
(* A choice that ignores the user's hash: any variant of the test.         *)
any_variant(user_id, test_data) == DOMAIN test_data.variants

assignment_choices(user_id, test_data) ==
    IF is_bandit(test_data.config)
    THEN DOMAIN test_data.variants
    ELSE {static_assignment(user_id, test_data.config)}

(* assign_variant without the test on the status of the test.              *)
assign_variant_any_status(t, user_id) ==
    /\ Begin(t)
    /\ IF redis_test = NoTest
       THEN tasks' = [tasks EXCEPT ![t] =
                Done([Call("assign_variant", "done") EXCEPT !.user_id = user_id],
                     "control")]
       ELSE \E variant \in assignment_choices(user_id, redis_test) :
                tasks' = [tasks EXCEPT ![t] =
                    [Call("assign_variant", "track") EXCEPT
                        !.user_id = user_id, !.test_data = redis_test,
                        !.variant = variant]]
    /\ UNCHANGED << now, advvars, user_hash, redis_test, redis_assignment, redis_conversion,
                    active_tests >>

ab_assign_variant_get(t, user_id) ==
    /\ Begin(t)
    /\ IF redis_test = NoTest \/ redis_test.status # "RUNNING"
       THEN tasks' = [tasks EXCEPT ![t] =
                Done([Call("assign_variant", "done") EXCEPT !.user_id = user_id],
                     "control")]
       ELSE \E variant \in assignment_choices(user_id, redis_test) :
                tasks' = [tasks EXCEPT ![t] =
                    [Call("assign_variant", "track") EXCEPT
                        !.user_id = user_id, !.test_data = redis_test,
                        !.variant = variant]]
    /\ UNCHANGED << now, advvars, user_hash, redis_test, redis_assignment, redis_conversion,
                    active_tests >>

track_assignment(t) ==
    /\ Step(t, "assign_variant", "track")
    /\ redis_assignment' =
           [redis_assignment EXCEPT ![tasks[t].user_id] =
               [variant |-> tasks[t].variant]]
    /\ tasks' = [tasks EXCEPT ![t] = Done(@, tasks[t].variant)]
    /\ UNCHANGED << now, advvars, user_hash, redis_test, redis_conversion, active_tests >>

(***************************************************************************)
(* ABTestingEngine._stop_test and _rollback_test: _get_test, _store_test.  *)
(***************************************************************************)
stop_test_get(t, reason) ==
    /\ Begin(t)
    /\ tasks' = [tasks EXCEPT ![t] =
           IF redis_test = NoTest
           THEN Done(Call("stop_test", "done"), "TypeError")
           ELSE [Call("stop_test", "store") EXCEPT
                    !.reason = reason, !.test_data = redis_test]]
    /\ UNCHANGED << now, advvars, user_hash, redis_test, redis_assignment, redis_conversion,
                    active_tests >>

stop_test_store(t) ==
    /\ Step(t, "stop_test", "store")
    /\ redis_test' = [tasks[t].test_data EXCEPT
                         !.status = "COMPLETED", !.stop_reason = tasks[t].reason]
    /\ tasks' = [tasks EXCEPT ![t] = Done(@, None)]
    /\ UNCHANGED << now, advvars, user_hash, redis_assignment, redis_conversion, active_tests >>

rollback_test_get(t, reason) ==
    /\ Begin(t)
    /\ tasks' = [tasks EXCEPT ![t] =
           IF redis_test = NoTest
           THEN Done(Call("rollback_test", "done"), "TypeError")
           ELSE [Call("rollback_test", "store") EXCEPT
                    !.reason = reason, !.test_data = redis_test]]
    /\ UNCHANGED << now, advvars, user_hash, redis_test, redis_assignment, redis_conversion,
                    active_tests >>

rollback_test_store(t) ==
    /\ Step(t, "rollback_test", "store")
    /\ redis_test' = [tasks[t].test_data EXCEPT
                         !.status = "TERMINATED",
                         !.termination_reason = tasks[t].reason]
    /\ tasks' = [tasks EXCEPT ![t] = Done(@, None)]
    /\ UNCHANGED << now, advvars, user_hash, redis_assignment, redis_conversion, active_tests >>

(***************************************************************************)
(* ABTestingEngine.record_conversion: _get_test, _get_user_assignment, the *)
(* update of the local test_data, _store_conversion, _store_test, then     *)
(* _check_early_stopping.                                                  *)
(***************************************************************************)
RECURSIVE SumCounter(_, _, _)
SumCounter(counters, ids, field) ==
    IF ids = {} THEN 0
    ELSE LET id == CHOOSE x \in ids : TRUE
         IN counters[id][field] + SumCounter(counters, ids \ {id}, field)

SumConversions(test_data) ==
    SumCounter(test_data.variants, DOMAIN test_data.variants, "conversions")

SumExposures(test_data) ==
    SumCounter(test_data.variants, DOMAIN test_data.variants, "exposure")

record_conversion_get_test(t, user_id, revenue) ==
    /\ Begin(t)
    /\ redis_test # NoTest => SumConversions(redis_test) < MaxConversions
    /\ tasks' = [tasks EXCEPT ![t] =
           IF redis_test = NoTest
           THEN Done([Call("record_conversion", "done") EXCEPT !.user_id = user_id],
                     "False")
           ELSE [Call("record_conversion", "get_user_assignment") EXCEPT
                    !.user_id = user_id, !.revenue = revenue,
                    !.test_data = redis_test]]
    /\ UNCHANGED << now, advvars, user_hash, redis_test, redis_assignment, redis_conversion,
                    active_tests >>

(* record_conversion counting a user without an assignment on some variant *)
(* of the test instead of returning False.                                 *)
record_conversion_count_unassigned(t) ==
    /\ Step(t, "record_conversion", "get_user_assignment")
    /\ LET assignment == redis_assignment[tasks[t].user_id]
           variant_id == IF assignment = NoAssignment
                         THEN CHOOSE id \in DOMAIN tasks[t].test_data.variants : TRUE
                         ELSE assignment.variant
       IN tasks' = [tasks EXCEPT ![t] =
              IF variant_id \notin DOMAIN @.test_data.variants
              THEN Done(@, "KeyError")
              ELSE [@ EXCEPT
                       !.pc = "store_conversion",
                       !.variant = variant_id,
                       !.test_data.variants[variant_id].conversions = @ + 1,
                       !.test_data.variants[variant_id].revenue = @ + tasks[t].revenue]]
    /\ UNCHANGED << now, advvars, user_hash, redis_test, redis_assignment, redis_conversion,
                    active_tests >>

record_conversion_get_user_assignment(t) ==
    /\ Step(t, "record_conversion", "get_user_assignment")
    /\ LET assignment == redis_assignment[tasks[t].user_id]
           variant_id == assignment.variant
       IN tasks' = [tasks EXCEPT ![t] =
              IF assignment = NoAssignment THEN Done(@, "False")
              ELSE IF variant_id \notin DOMAIN @.test_data.variants
              THEN Done(@, "KeyError")
              ELSE [@ EXCEPT
                       !.pc = "store_conversion",
                       !.variant = variant_id,
                       !.test_data.variants[variant_id].conversions = @ + 1,
                       !.test_data.variants[variant_id].revenue = @ + tasks[t].revenue]]
    /\ UNCHANGED << now, advvars, user_hash, redis_test, redis_assignment, redis_conversion,
                    active_tests >>

record_conversion_store_conversion(t) ==
    /\ Step(t, "record_conversion", "store_conversion")
    /\ redis_conversion' = redis_conversion + 1
    /\ tasks' = [tasks EXCEPT ![t].pc = "store_test"]
    /\ UNCHANGED << now, advvars, user_hash, redis_test, redis_assignment, active_tests >>

(* _check_rollback_criteria on test_data: some non-control variant with    *)
(* more than 100 exposures converts below the ratio of the control rate    *)
(* (rollback_criteria is {}: min_conversion_rate_ratio is 0.8).            *)
rollback_variant(test_data) ==
    { id \in DOMAIN test_data.variants :
        /\ id # "control"
        /\ test_data.variants[id].exposure > MinExposure
        /\ LET c == test_data.variants[id].conversions
               e == test_data.variants[id].exposure
               cc == test_data.variants["control"].conversions
               ce == test_data.variants["control"].exposure
           IN 10 * c * ce < 8 * cc * e }

(* No method of the engine increments exposure, so SumExposures is 0 and   *)
(* rollback_variant is empty in every run: analyze_test is entered only by *)
(* a test whose required_sample_size is 0, and the continuations named     *)
(* "significance" and "rollback_get" are never taken.                      *)
record_conversion_store_test(t) ==
    /\ Step(t, "record_conversion", "store_test")
    /\ redis_test' = tasks[t].test_data
    /\ tasks' = [tasks EXCEPT ![t] =
           IF SumExposures(@.test_data) >= @.test_data.required_sample_size
           THEN [@ EXCEPT !.pc = "analyze_test"]
           ELSE IF rollback_variant(@.test_data) # {}
           THEN [@ EXCEPT !.pc = "rollback_get"]
           ELSE Done(@, "True")]
    /\ UNCHANGED << now, advvars, user_hash, redis_assignment, redis_conversion, active_tests >>

(* analyze_test inside _check_early_stopping: _get_test, then the          *)
(* statistics.  With exactly two variants chi2_contingency is called on    *)
(* [[c, e - c], [c', e' - c']]; it raises ValueError when an entry is      *)
(* negative or an expected frequency is zero.  With any other number of    *)
(* variants the result is not significant.                                 *)
chi2_raises(test_data) ==
    \E id \in DOMAIN test_data.variants :
        LET c == test_data.variants[id].conversions
            e == test_data.variants[id].exposure
        IN \/ e - c < 0
           \/ SumConversions(test_data) = 0
           \/ SumExposures(test_data) - SumConversions(test_data) = 0
           \/ e = 0

record_conversion_analyze_test(t) ==
    /\ Step(t, "record_conversion", "analyze_test")
    /\ tasks' = [tasks EXCEPT ![t] =
           IF Cardinality(DOMAIN redis_test.variants) = 2 /\ chi2_raises(redis_test)
           THEN Done(@, "ValueError")
           ELSE IF Cardinality(DOMAIN redis_test.variants) = 2
           THEN [@ EXCEPT !.pc = "significance"]
           ELSE IF rollback_variant(@.test_data) # {}
           THEN [@ EXCEPT !.pc = "rollback_get"]
           ELSE Done(@, "True")]
    /\ UNCHANGED << now, advvars, user_hash, redis_test, redis_assignment, redis_conversion,
                    active_tests >>

(***************************************************************************)
(* ABTestingEngine._determine_winner on the variant_results of test_data,  *)
(* for the target metric 'conversion_rate' (conversions / exposure, 0 when *)
(* there is no exposure): the first variant, in the order of the variants  *)
(* dict, whose value is greater than every value before it.                *)
(***************************************************************************)
conversion_rate_greater(test_data, a, b) ==
    LET ca == test_data.variants[a].conversions
        ea == test_data.variants[a].exposure
        cb == test_data.variants[b].conversions
        eb == test_data.variants[b].exposure
    IN IF ea <= 0 THEN (eb > 0 /\ cb < 0)
       ELSE IF eb <= 0 THEN ca > 0
       ELSE ca * eb > cb * ea

RECURSIVE determine_winner_scan(_, _, _)
determine_winner_scan(test_data, list, best_variant) ==
    IF list = << >> THEN best_variant
    ELSE determine_winner_scan(test_data, Tail(list),
             IF \/ best_variant = None
                \/ conversion_rate_greater(test_data, Head(list).id, best_variant)
             THEN Head(list).id ELSE best_variant)

determine_winner(test_data) ==
    determine_winner_scan(test_data, test_data.config.variants, None)

(***************************************************************************)
(* ABTestingEngine.analyze_test: _get_test, then the statistics on what it *)
(* read.  A missing test raises TypeError at test_data['config'].  The     *)
(* result kept is the winner field of the TestResult.                      *)
(***************************************************************************)
analyze_test(t) ==
    /\ Begin(t)
    /\ tasks' = [tasks EXCEPT ![t] =
           Done(Call("analyze_test", "done"),
                IF redis_test = NoTest THEN "TypeError"
                ELSE IF Cardinality(DOMAIN redis_test.variants) = 2
                        /\ chi2_raises(redis_test)
                THEN "ValueError"
                ELSE determine_winner(redis_test))]
    /\ UNCHANGED << now, advvars, user_hash, redis_test, redis_assignment, redis_conversion,
                    active_tests >>

(***************************************************************************)
(* The bandit algorithms of the engine.  arms_performance is the list      *)
(* _bandit_assignment builds from test_data['variants'], in dict order:    *)
(* trials is the exposure of the variant, successes its conversions.       *)
(***************************************************************************)
BanditAlgorithms == {"epsilon_greedy", "thompson_sampling", "ucb"}

arms_performance(test_data) ==
    LET ids == DictKeys(test_data.config.variants)
    IN [i \in 1..Len(ids) |->
           [arm_id |-> ids[i],
            trials |-> test_data.variants[ids[i]].exposure,
            successes |-> test_data.variants[ids[i]].conversions]]

ArmIds(arms) == { arms[i].arm_id : i \in 1..Len(arms) }

RECURSIVE SumTrials(_)
SumTrials(arms) == IF arms = << >> THEN 0 ELSE Head(arms).trials + SumTrials(Tail(arms))

(* UCBBandit.select_arm, by the branch that decides: "first" with no trial *)
(* at all, "unexplored" when an arm without trials has the value inf (max  *)
(* keeps the first of them), "score" when the UCB values decide.           *)
ucb_branch(arms) ==
    IF SumTrials(arms) = 0 THEN "first"
    ELSE IF \E i \in 1..Len(arms) : arms[i].trials = 0 THEN "unexplored"
    ELSE "score"

(* The UCB value mean_reward + sqrt(2 ln(total_trials) / trials) is        *)
(* irrational: where it decides, every arm is a possible result.           *)
ucb_select_arm(arms) ==
    CASE ucb_branch(arms) = "first" -> {arms[1].arm_id}
      [] ucb_branch(arms) = "unexplored" ->
             {arms[CHOOSE i \in 1..Len(arms) :
                       /\ arms[i].trials = 0
                       /\ \A j \in 1..Len(arms) : arms[j].trials = 0 => i <= j].arm_id}
      [] OTHER -> ArmIds(arms)

(* ThompsonSamplingBandit.select_arm: np.random.beta(alpha, beta) raises   *)
(* ValueError unless both parameters are positive; the arm with the        *)
(* greatest sample may be any arm.                                         *)
thompson_parameters_positive(arms) ==
    \A i \in 1..Len(arms) :
        /\ arms[i].successes + 1 > 0
        /\ arms[i].trials - arms[i].successes + 1 > 0

thompson_select_arm(arms) ==
    IF thompson_parameters_positive(arms) THEN ArmIds(arms) ELSE {"ValueError"}

(* EpsilonGreedyBandit.select_arm: a random arm with probability epsilon,  *)
(* else the best successes / max(trials, 1); any arm is a possible result. *)
epsilon_greedy_select_arm(arms) == ArmIds(arms)

select_arm(algorithm_name, arms) ==
    CASE algorithm_name = "ucb" -> ucb_select_arm(arms)
      [] algorithm_name = "thompson_sampling" -> thompson_select_arm(arms)
      [] algorithm_name = "epsilon_greedy" -> epsilon_greedy_select_arm(arms)

(***************************************************************************)
(* ABTestingEngine._bandit_assignment: _get_test, then select_arm of the   *)
(* algorithm success_criteria names ('thompson_sampling' by default).  A   *)
(* missing test raises TypeError at test_data['config'].                   *)
(***************************************************************************)
bandit_assignment(t, user_id, algorithm_name) ==
    /\ Begin(t)
    /\ \E selected_arm \in
              IF redis_test = NoTest THEN {"TypeError"}
              ELSE select_arm(algorithm_name, arms_performance(redis_test)) :
           tasks' = [tasks EXCEPT ![t] =
               Done([Call("bandit_assignment", "done") EXCEPT !.user_id = user_id],
                    selected_arm)]
    /\ UNCHANGED << now, advvars, user_hash, redis_test, redis_assignment, redis_conversion,
                    active_tests >>

Init ==
    /\ now = 0
    /\ experiments = {}
    /\ experiment_type = None
    /\ variant_ids = << >>
    /\ variants = << >>
    /\ targeting_criteria = << >>
    /\ status = None
    /\ start_time = NoTime
    /\ end_time = NoTime
    /\ participant_assignments = [u \in Users |-> None]
    /\ conversion_events = << >>
    /\ metrics_history = 0
    /\ logged_reason = NoReason
    /\ ret = Returned("init", None, None)
    /\ user_hash \in UserHashes
    /\ redis_test = NoTest
    /\ redis_assignment = [u \in Users |-> NoAssignment]
    /\ redis_conversion = 0
    /\ active_tests = FALSE
    /\ tasks = [t \in Tasks |-> Idle]
    /\ calls = 0

Tick ==
    /\ now < MaxClock
    /\ now' = now + 1
    /\ UNCHANGED << advvars, abvars >>

(* AdvancedExperiment and its manager; no engine is constructed.           *)
InitAdvanced == Init /\ user_hash = SplitHash

Next ==
    \/ \E config \in ExperimentConfigs : create_experiment(config)
    \/ start_experiment
    \/ \E ctx \in Contexts : assign_variant(ctx)
    \/ \E ctx \in Contexts : get_variant_config(ctx)
    \/ \E user_id \in Users, value \in Values : track_conversion(user_id, value)
    \/ calculate_metrics
    \/ get_winning_variant
    \/ stop_experiment
    \/ Tick

Spec == InitAdvanced /\ [][Next]_vars

NextAB ==
    \/ \E t \in Tasks, config \in TestConfigurations : create_test(t, config)
    \/ \E t \in Tasks : start_test_get(t)
    \/ \E t \in Tasks : start_test_store(t)
    \/ \E t \in Tasks, user_id \in Users : ab_assign_variant_get(t, user_id)
    \/ \E t \in Tasks : track_assignment(t)
    \/ \E t \in Tasks, reason \in StopReasons : stop_test_get(t, reason)
    \/ \E t \in Tasks : stop_test_store(t)
    \/ \E t \in Tasks, reason \in RollbackReasons : rollback_test_get(t, reason)
    \/ \E t \in Tasks : rollback_test_store(t)
    \/ \E t \in Tasks, user_id \in Users, revenue \in Revenues :
           record_conversion_get_test(t, user_id, revenue)
    \/ \E t \in Tasks : record_conversion_get_user_assignment(t)
    \/ \E t \in Tasks : record_conversion_store_conversion(t)
    \/ \E t \in Tasks : record_conversion_store_test(t)
    \/ \E t \in Tasks : record_conversion_analyze_test(t)
    \/ \E t \in Tasks : analyze_test(t)


(* ABTestingEngine.                                                        *)
SpecAB == Init /\ [][NextAB]_vars

(* Either implementation: a run exercises the experiment or the engine.    *)
(* The experiment does not read the engine's hash, so its runs are taken   *)
(* under one value of it.                                                  *)
NextBoth ==
    \/ calls = 0 /\ user_hash = SplitHash /\ Next
    \/ ret.op = "init" /\ now = 0 /\ NextAB

SpecBoth == Init /\ [][NextBoth]_vars

(* AdvancedExperiment through the warm-up of a bandit: creation, start and *)
(* assignments only, up to MaxWarmupAssigns impressions.                   *)
assign_variant_warmup(ctx) == assign("assign_variant", ctx, MaxWarmupAssigns)

NextWarmup ==
    \/ \E config \in ExperimentConfigs : create_experiment(config)
    \/ start_experiment
    \/ \E ctx \in Contexts : assign_variant_warmup(ctx)

SpecWarmup == InitAdvanced /\ [][NextWarmup]_vars

(* AdvancedExperiment past the length of a warm-up: creation, start and    *)
(* assignments only, up to MaxFallbackAssigns impressions.                 *)
assign_variant_fallback(ctx) == assign("assign_variant", ctx, MaxFallbackAssigns)

NextFallback ==
    \/ \E config \in ExperimentConfigs : create_experiment(config)
    \/ start_experiment
    \/ \E ctx \in Contexts : assign_variant_fallback(ctx)

SpecFallback == InitAdvanced /\ [][NextFallback]_vars

(***************************************************************************)
(* AdvancedExperiment at the minimum sample size.  The run starts from a   *)
(* running ab_test experiment whose two users have been assigned and have  *)
(* converted many times: user_3 (treatment) first, then user_1 (control),  *)
(* each conversion followed by the two appends of the guardrail check to   *)
(* metrics_history, and assignments since.  No conversion on that way      *)
(* stops the experiment: the control has no conversion while the treatment *)
(* converts, the treatment's rate stays above the control's, and one of    *)
(* the variants is short of the minimum sample size until the assignments  *)
(* that follow the conversions.                                            *)
(***************************************************************************)
SigImpressions == {999, 1000}
SigControlConversions == {100}
SigTreatmentConversions == {126, 127}

Repeat(e, n) == [i \in 1..n |-> e]

Counted(impressions, conversions, value) ==
    [VariantConfiguration(WeightUnit \div 2) EXCEPT
        !.impressions = impressions,
        !.conversions = conversions,
        !.revenue = conversions * value]

RunningWith(ics, its, ccs, cts) ==
    /\ now = 0
    /\ experiments = {ExperimentId}
    /\ experiment_type = "ab_test"
    /\ variant_ids = << "control", "treatment" >>
    /\ targeting_criteria = NoTargeting
    /\ status = "running"
    /\ start_time = 0
    /\ end_time = DurationDays
    /\ participant_assignments =
           [u \in Users |-> IF u = "user_1" THEN "control" ELSE "treatment"]
    /\ \E ic \in ics, it \in its, cc \in ccs, ct \in cts, value \in Values :
           /\ variants = [id \in {"control", "treatment"} |->
                             IF id = "control" THEN Counted(ic, cc, value)
                             ELSE Counted(it, ct, value)]
           /\ conversion_events =
                  Repeat([user_id |-> "user_3", variant_id |-> "treatment",
                          value |-> value], ct)
                  \o Repeat([user_id |-> "user_1", variant_id |-> "control",
                             value |-> value], cc)
           /\ metrics_history = 2 * (cc + ct)
    /\ logged_reason = NoReason
    /\ ret = Returned("assign_variant", "user_1", "control")
    /\ user_hash = SplitHash
    /\ redis_test = NoTest
    /\ redis_assignment = [u \in Users |-> NoAssignment]
    /\ redis_conversion = 0
    /\ active_tests = FALSE
    /\ tasks = [t \in Tasks |-> Idle]
    /\ calls = 0

InitSignificance ==
    RunningWith(SigImpressions, SigImpressions,
                SigControlConversions, SigTreatmentConversions)

assign_variant_significance(ctx) == assign("assign_variant", ctx, MaxSigImpressions)

track_conversion_significance(user_id, value) ==
    track(user_id, value, MaxSigEvents, MaxSigHistory)

NextSignificance ==
    \/ \E ctx \in Contexts : assign_variant_significance(ctx)
    \/ \E user_id \in Users, value \in Values :
           track_conversion_significance(user_id, value)

SpecSignificance == InitSignificance /\ [][NextSignificance]_vars

(***************************************************************************)
(* AdvancedExperiment in the end-to-end scenario: control with 100 and     *)
(* treatment with 150 conversions, both at 500 impressions, or both at the *)
(* minimum sample size, reached like the states of InitSignificance.       *)
(***************************************************************************)
ScenarioImpressions == {500, 1000}
ScenarioControlConversions == {100}
ScenarioTreatmentConversions == {150}

InitScenario ==
    \E n \in ScenarioImpressions :
        RunningWith({n}, {n}, ScenarioControlConversions, ScenarioTreatmentConversions)

calculate_metrics_scenario == calculate(MaxScenarioHistory)

get_winning_variant_scenario == get_winner(MaxScenarioHistory)

track_conversion_scenario(user_id, value) ==
    track(user_id, value, MaxScenarioEvents, MaxScenarioHistory)

NextScenario ==
    \/ calculate_metrics_scenario
    \/ get_winning_variant_scenario
    \/ \E user_id \in Users, value \in Values : track_conversion_scenario(user_id, value)

SpecScenario == InitScenario /\ [][NextScenario]_vars

(***************************************************************************)
(* ABTestingEngine with its bandit selection called on the stored test.    *)
(***************************************************************************)
NextBandit ==
    \/ NextAB
    \/ \E t \in Tasks, user_id \in Users, algorithm_name \in BanditAlgorithms :
           bandit_assignment(t, user_id, algorithm_name)

SpecBandit == Init /\ [][NextBandit]_vars

(***************************************************************************)
(* UCBBandit.select_arm and the other algorithms as functions of the arms  *)
(* they are given: the stored test is a running bandit test of three arms  *)
(* whose trials are drawn from TrialCounts.                                *)
(***************************************************************************)
TrialCounts == {0, 1, 9, 10}

ThreeArms ==
    TestConfiguration("BANDIT", 80, 95,
                      << S("control", 34), S("treatment", 33), S("variant_b", 33) >>)

InitSelectArm ==
    /\ now = 0
    /\ experiments = {}
    /\ experiment_type = None
    /\ variant_ids = << >>
    /\ variants = << >>
    /\ targeting_criteria = << >>
    /\ status = None
    /\ start_time = NoTime
    /\ end_time = NoTime
    /\ participant_assignments = [u \in Users |-> None]
    /\ conversion_events = << >>
    /\ metrics_history = 0
    /\ logged_reason = NoReason
    /\ ret = Returned("init", None, None)
    /\ user_hash = SplitHash
    /\ \E trials \in [{"control", "treatment", "variant_b"} -> TrialCounts] :
           redis_test =
               [NewTest(ThreeArms) EXCEPT
                   !.status = "RUNNING",
                   !.variants = [id \in DOMAIN trials |->
                                    [VariantCounters EXCEPT !.exposure = trials[id]]]]
    /\ redis_assignment = [u \in Users |-> NoAssignment]
    /\ redis_conversion = 0
    /\ active_tests = TRUE
    /\ tasks = [t \in Tasks |-> Idle]
    /\ calls = 0

NextSelectArm ==
    \E t \in Tasks, user_id \in Users, algorithm_name \in BanditAlgorithms :
        bandit_assignment(t, user_id, algorithm_name)

SpecSelectArm == InitSelectArm /\ [][NextSelectArm]_vars

(***************************************************************************)
(* AdvancedExperiment with segment strategies set on the experiment.       *)
(***************************************************************************)
NextSegment ==
    \/ Next
    \/ \E ctx \in Contexts, segment_strategies \in SegmentStrategies :
           assign_variant_segment(ctx, segment_strategies)

SpecSegment == InitAdvanced /\ [][NextSegment]_vars

(***************************************************************************)
(* The static selections on variants one of which has weight 0, at each    *)
(* position of the order.  AssignmentBuckets are values of                 *)
(* int(md5(...).hexdigest(), 16) % 10000, the numerator of random_value    *)
(* (for ExperimentId the user id "user_2566" gives 0); SplitBuckets are    *)
(* values of hash(...) % 100.                                              *)
(***************************************************************************)
AssignmentBuckets == {0, 1, 4999, 5000, 5001, 9999}
SplitBuckets == {0, 49, 50, 99}

ZeroWeightVariants ==
    { << V("variant_b", 0), V("control", 128), V("treatment", 128) >>,
      << V("control", 128), V("variant_b", 0), V("treatment", 128) >>,
      << V("control", 128), V("treatment", 128), V("variant_b", 0) >> }

ZeroSplitVariants ==
    { << S("variant_b", 0), S("control", 50), S("treatment", 50) >>,
      << S("control", 50), S("variant_b", 0), S("treatment", 50) >>,
      << S("control", 50), S("treatment", 50), S("variant_b", 0) >> }

InitSelection ==
    /\ now = 0
    /\ experiments = {ExperimentId}
    /\ experiment_type = "ab_test"
    /\ \E list \in ZeroWeightVariants :
           /\ variant_ids = DictKeys(list)
           /\ variants = [id \in { list[i].id : i \in 1..Len(list) } |->
                             VariantConfiguration(DictValue(list, id).weight)]
    /\ targeting_criteria = NoTargeting
    /\ status = "running"
    /\ start_time = 0
    /\ end_time = DurationDays
    /\ participant_assignments = [u \in Users |-> None]
    /\ conversion_events = << >>
    /\ metrics_history = 0
    /\ logged_reason = NoReason
    /\ ret = Returned("start_experiment", None, "True")
    /\ user_hash \in [Users -> SplitBuckets]
    /\ \E list \in ZeroSplitVariants :
           redis_test = [NewTest(TestConfiguration("AB", 80, 95, list)) EXCEPT
                            !.status = "RUNNING"]
    /\ redis_assignment = [u \in Users |-> NoAssignment]
    /\ redis_conversion = 0
    /\ active_tests = TRUE
    /\ tasks = [t \in Tasks |-> Idle]
    /\ calls = 0

(* _get_random_assignment for a user whose random_value is bucket / 10000. *)
get_random_assignment_bucket(bucket) ==
    /\ ret' = Returned("get_random_assignment", None, random_assignment(bucket))
    /\ UNCHANGED << now, experiments, experiment_type, variant_ids, variants,
                    targeting_criteria, status, start_time, end_time,
                    participant_assignments, conversion_events, metrics_history,
                    logged_reason, abvars >>

NextSelection ==
    \/ \E bucket \in AssignmentBuckets : get_random_assignment_bucket(bucket)
    \/ \E t \in Tasks, user_id \in Users : ab_assign_variant_get(t, user_id)
    \/ \E t \in Tasks : track_assignment(t)

SpecSelection == InitSelection /\ [][NextSelection]_vars

(***************************************************************************)
(*                               Claims                                    *)
(***************************************************************************)

(* C1: sticky assignment: once a user holds an assignment in an experiment *)
(* (bandit and personalized types included), no later step stores a        *)
(* different variant for that user.  Checked under SpecWarmup.             *)
C1_StickyAssignment ==
    [][\A u \in Users :
          participant_assignments[u] # None
              => participant_assignments'[u] = participant_assignments[u]]_vars

(* C2: assign is idempotent on counters: an assign_variant or              *)
(* get_variant_config call for a user who already holds an assignment in a *)
(* running experiment leaves every variant's impressions and arm_pulls     *)
(* unchanged.                                                              *)
C2_AssignIdempotentOnCounters ==
    [][\A ctx \in Contexts :
          ( /\ status = "running"
            /\ participant_assignments[ctx.user_id] # None
            /\ assign_variant(ctx) \/ get_variant_config(ctx) )
          => \A id \in DOMAIN variants :
                 /\ variants'[id].impressions = variants[id].impressions
                 /\ variants'[id].arm_pulls = variants[id].arm_pulls]_vars

C5_TerminalIrreversible ==
    [][status = "completed" => status' = "completed"]_vars

(* C6: after a terminal status every track_conversion is a no-op, even for *)
(* a user who holds an assignment: no counter of a variant changes and no  *)
(* conversion event is appended.                                           *)
C6_TrackAfterTerminalNoOp ==
    [][\A user_id \in Users, value \in Values :
          (status = "completed" /\ track_conversion(user_id, value))
          => /\ variants' = variants
             /\ conversion_events' = conversion_events]_vars

(* C7: a second stop_experiment on a stopped experiment fails and leaves   *)
(* the end timestamp recorded by the first stop unchanged.                 *)
C7_SecondStopFails ==
    [][(status = "completed" /\ stop_experiment)
          => /\ ret'.val = "False"
             /\ end_time' = end_time]_vars

(* C8: start_experiment on an experiment that is not in draft (running or  *)
(* terminal) fails and leaves status, start and end timestamps and every   *)
(* variant counter unchanged.                                              *)
C8_StartNotDraftFails ==
    [][(status \in {"running", "completed"} /\ start_experiment)
          => /\ ret'.val = "False"
             /\ status' = status
             /\ start_time' = start_time
             /\ end_time' = end_time
             /\ variants' = variants]_vars

(* The weights of a configuration sum within [0.99, 1.01] and it has at    *)
(* least two variants.                                                     *)
RECURSIVE SumWeights(_)
SumWeights(list) ==
    IF list = << >> THEN 0 ELSE Head(list).weight + SumWeights(Tail(list))

WeightsAndCountValid(config) ==
    /\ Len(config.variants) >= 2
    /\ 100 * Abs(SumWeights(config.variants) - WeightUnit) <= WeightUnit

(* C9: create_experiment rejects any configuration whose weights sum       *)
(* outside [0.99, 1.01] or that has fewer than two variants: it registers  *)
(* no experiment.                                                          *)
C9_CreateRejectsInvalid ==
    [][\A config \in ExperimentConfigs :
          (~ WeightsAndCountValid(config) /\ create_experiment(config))
          => experiments' = {}]_vars

(* C10: a running experiment or test has at least two distinct variants    *)
(* and weights summing to 1 within 0.01 (splits summing to 100 within 1).  *)
C10_RunningIsValid ==
    /\ status = "running"
           => /\ Cardinality(DOMAIN variants) >= 2
              /\ 100 * Abs(SumOver(variants, variant_ids, "weight") - WeightUnit)
                     <= WeightUnit
    /\ (redis_test # NoTest /\ redis_test.status = "RUNNING")
           => /\ Cardinality(DOMAIN redis_test.variants) >= 2
              /\ Abs(SumSplits(redis_test.config.variants) - 100) <= 1

(* C11: track_conversion (record_conversion) for a user who has no         *)
(* assignment returns False without raising and changes nothing: no        *)
(* variant counter, no conversion event, not the status.                   *)
C11_UnassignedConversionNoOp ==
    [][ /\ \A user_id \in Users, value \in Values :
               (participant_assignments[user_id] = None
                    /\ track_conversion(user_id, value))
               => /\ ret'.val = "False"
                  /\ variants' = variants
                  /\ conversion_events' = conversion_events
                  /\ status' = status
        /\ \A t \in Tasks :
               ( /\ record_conversion_get_user_assignment(t)
                 /\ redis_assignment[tasks[t].user_id] = NoAssignment )
               => /\ tasks'[t].result = "False"
                  /\ ~ InFlight(t)'
                  /\ redis_test' = redis_test
                  /\ redis_conversion' = redis_conversion ]_vars

(* C11 witness: in a running experiment where another user is assigned,   *)
(* track_conversion for a user without an assignment has returned False.   *)
C11_Witness ==
    /\ status = "running"
    /\ ret.op = "track_conversion"
    /\ ret.val = "False"
    /\ participant_assignments[ret.user] = None
    /\ \E u \in Users : participant_assignments[u] # None

(* C12: a first-time assignment of a user to variant v in a running        *)
(* experiment increments v's exposure counter (impressions, exposure) by   *)
(* exactly 1, v's arm_pulls by exactly 1 in a bandit experiment, and       *)
(* changes no counter of another variant.                                  *)
C12_FirstAssignmentCountsOnce ==
    [][ /\ \A ctx \in Contexts :
               ( /\ status = "running"
                 /\ participant_assignments[ctx.user_id] = None
                 /\ assign_variant(ctx) \/ get_variant_config(ctx)
                 /\ ret'.val # None )
               => /\ variants'[ret'.val].impressions
                         = variants[ret'.val].impressions + 1
                  /\ experiment_type = "multi_armed_bandit"
                         => variants'[ret'.val].arm_pulls
                                = variants[ret'.val].arm_pulls + 1
                  /\ \A id \in DOMAIN variants \ {ret'.val} :
                         variants'[id] = variants[id]
        /\ \A t \in Tasks :
               ( /\ track_assignment(t)
                 /\ redis_assignment[tasks[t].user_id] = NoAssignment )
               => /\ redis_test'.variants[tasks[t].variant].exposure
                         = redis_test.variants[tasks[t].variant].exposure + 1
                  /\ \A id \in DOMAIN redis_test.variants \ {tasks[t].variant} :
                         redis_test'.variants[id] = redis_test.variants[id] ]_vars

(* Some exposure, conversion or revenue counter is lower after the step.   *)
CounterDecreases ==
    \E id \in DOMAIN variants \cap DOMAIN variants' :
        \/ variants'[id].impressions < variants[id].impressions
        \/ variants'[id].conversions < variants[id].conversions
        \/ variants'[id].revenue < variants[id].revenue

(* C13: variant counters never decrease from one state to the next except *)
(* in the start step, which zeroes them all together, and the counters of  *)
(* an experiment are reset at most once: a start that resets them is the   *)
(* first start of the experiment.                                          *)
C13_CountersMonotoneResetOnce ==
    [][ /\ CounterDecreases
               => /\ start_experiment
                  /\ \A id \in DOMAIN variants :
                         /\ variants'[id].impressions = 0
                         /\ variants'[id].conversions = 0
                         /\ variants'[id].revenue = 0
        /\ (start_experiment /\ ret'.val = "True") => start_time = NoTime ]_vars

(* C14: no lost updates.  The five calls made so far are create_test,      *)
(* start_test, one assign_variant and two record_conversion calls for the  *)
(* assigned user that overlapped (t2 takes a call only while t1 is in      *)
(* flight) and both returned True: the stored conversions have grown by 2  *)
(* in total and the stored revenue by the two revenue amounts.             *)
C14_NoLostUpdates ==
    ( /\ calls = 5
      /\ \A t \in Tasks :
             /\ tasks[t].op = "record_conversion"
             /\ ~ InFlight(t)
             /\ tasks[t].result = "True" )
    => /\ SumConversions(redis_test) = Cardinality(Tasks)
       /\ \E revenue \in Revenues :
              SumCounter(redis_test.variants, DOMAIN redis_test.variants, "revenue")
                  = Cardinality(Tasks) * revenue

(* C15: once the stored status of a test is COMPLETED or TERMINATED, no    *)
(* write of the test record by record_conversion or start_test (also one   *)
(* whose read happened before the stop) stores a non-terminal status.      *)
C15_TerminalStatusNotOverwritten ==
    [][ \A t \in Tasks :
            ( /\ redis_test # NoTest
              /\ redis_test.status \in {"COMPLETED", "TERMINATED"}
              /\ (record_conversion_store_test(t) \/ start_test_store(t)) )
            => redis_test'.status \in {"COMPLETED", "TERMINATED"} ]_vars

(* C16: guardrail rollback.  When track_conversion returns with counters   *)
(* in which some non-control variant has a relative conversion drop above  *)
(* max_conversion_drop, the experiment is stopped with a guardrail reason  *)
(* naming such a variant; and once an experiment was stopped by the        *)
(* guardrail, every later assign_variant or get_variant_config returns     *)
(* None.                                                                   *)
C16_GuardrailRollback ==
    [][ /\ \A user_id \in Users, value \in Values :
               ( /\ track_conversion(user_id, value)
                 /\ ret'.val = "True"
                 /\ guardrail_drop(variants') )
               => /\ status' \in {"completed", "cancelled"}
                  /\ logged_reason'.kind = "Guardrail triggered"
                  /\ logged_reason'.variant # "control"
                  /\ conversion_drop(variants', logged_reason'.variant)
        /\ \A ctx \in Contexts :
               ( /\ logged_reason.kind = "Guardrail triggered"
                 /\ (assign_variant(ctx) \/ get_variant_config(ctx)) )
               => ret'.val = None ]_vars

(* C17: the conversion-drop guardrail only considers non-control variants  *)
(* with impressions above the minimum exposure threshold: a conversion     *)
(* tracked on a running experiment while every non-control variant is at   *)
(* or below the threshold never stops it with a guardrail reason.          *)
C17_GuardrailNeedsExposure ==
    [][ \A user_id \in Users, value \in Values :
            ( /\ status = "running"
              /\ \A id \in DOMAIN variants :
                     id # "control" => variants[id].impressions <= MinExposure
              /\ track_conversion(user_id, value) )
            => ~ ( /\ status' # "running"
                   /\ logged_reason'.kind = "Guardrail triggered" ) ]_vars

(* C19: analysis is a pure read.  calculate_metrics and get_winning_variant *)
(* leave the status, the counters, the assignments, the conversion events   *)
(* and the stored metrics history unchanged.                                *)
C19_AnalyzeIsPureRead ==
    [][ (calculate_metrics \/ get_winning_variant)
        => UNCHANGED << status, variants, participant_assignments,
                        conversion_events, metrics_history >> ]_vars

(* C20: the winner reported by an analysis is never the control, and it is *)
(* None when no variant qualifies: a variant without a single conversion   *)
(* has no significant lift, so a test with no conversions has no winner.   *)
C20_WinnerQualifies ==
    \A t \in Tasks :
        ( /\ tasks[t].op = "analyze_test"
          /\ ~ InFlight(t)
          /\ tasks[t].result \notin {"TypeError", "ValueError"} )
        => /\ tasks[t].result # "control"
           /\ SumConversions(redis_test) = 0 => tasks[t].result = None

C19_AnalyzeWritesOnlyHistory ==
    [][ /\ (calculate_metrics \/ get_winning_variant)
           => /\ UNCHANGED << status, start_time, end_time, variants,
                              participant_assignments, conversion_events >>
              /\ metrics_history' = metrics_history + 1
        /\ \A t \in Tasks :
               analyze_test(t)
               => UNCHANGED << redis_test, redis_assignment, redis_conversion,
                               active_tests >> ]_vars

C19_Witness ==
    /\ ret.op \in {"calculate_metrics", "get_winning_variant"}
    /\ status = "running"
    /\ conversion_events # << >>
    /\ metrics_history > 0

(* C21: end-to-end scenario.  With control at 100 conversions and          *)
(* treatment at 150, both over 500 impressions, the analysis marks the     *)
(* treatment significant at 0.95 or more and get_winning_variant returns   *)
(* treatment.                                                              *)
ScenarioCounters(n) ==
    /\ variants["control"].impressions = n
    /\ variants["treatment"].impressions = n
    /\ variants["control"].conversions \in ScenarioControlConversions
    /\ variants["treatment"].conversions \in ScenarioTreatmentConversions

C22_ConfidenceIntervalBounds ==
    ret.op = "calculate_metrics"
    => \A id \in DOMAIN variants :
           LET rate == conversion_rate(variants, id)
           IN IF confidence_interval(variants, id) = "zero"
              THEN rate[1] = 0
              ELSE 0 <= rate[1] /\ rate[1] <= rate[2]

C24_BanditSelectionTotal ==
    [][ \A t \in Tasks, user_id \in Users, algorithm_name \in BanditAlgorithms :
            ( /\ redis_test # NoTest
              /\ redis_test.status = "RUNNING"
              /\ redis_test.config.test_type = "BANDIT"
              /\ bandit_assignment(t, user_id, algorithm_name) )
            => /\ tasks'[t].result \in DOMAIN redis_test.variants
               /\ thompson_parameters_positive(arms_performance(redis_test)) ]_vars

(* C25: a user outside the traffic allocation is never assigned.  A user   *)
(* whose bucket is greater than or equal to the traffic allocation of the  *)
(* test has no assignment in the assignment store.                         *)
C25_OutsideAllocationNeverAssigned ==
    \A user_id \in Users :
        ( /\ redis_test # NoTest
          /\ user_hash[user_id] >= redis_test.config.traffic_allocation )
        => redis_assignment[user_id] = NoAssignment

(* C26: analysis of degenerate counters.  When every exposure and every    *)
(* conversion of the test is zero, analyze_test does not raise and the     *)
(* winner of its result is None.                                           *)
C26_DegenerateAnalysisHasNoWinner ==
    [][ \A t \in Tasks :
            ( /\ redis_test # NoTest
              /\ \A id \in DOMAIN redis_test.variants :
                     /\ redis_test.variants[id].exposure = 0
                     /\ redis_test.variants[id].conversions = 0
              /\ analyze_test(t) )
            => tasks'[t].result = None ]_vars

(* C27: every variant id stored in participant_assignments is a key of the *)
(* variants of the experiment, also when a segment strategy supplied the   *)
(* id and also after an assign_variant that returned None.                 *)
C27_AssignmentsAreVariants ==
    \A user_id \in Users :
        participant_assignments[user_id] # None
            => participant_assignments[user_id] \in DOMAIN variants

(* C28: the conversions counter of every variant equals the number of      *)
(* conversion events recorded for that variant, and a variant with         *)
(* conversions has impressions.                                            *)
C28_ConversionsMatchEvents ==
    \A id \in DOMAIN variants :
        /\ variants[id].conversions =
               Cardinality({ i \in 1..Len(conversion_events) :
                               conversion_events[i].variant_id = id })
        /\ variants[id].conversions > 0 => variants[id].impressions > 0

(* C29: the bandit fallback of a personalized experiment makes progress.   *)
(* A warm-up gives each of the K variants WarmupPulls pulls, so once a     *)
(* running personalized experiment has made K * WarmupPulls assignments    *)
(* the warm-up is over (the pulls add up to K * WarmupPulls) and every     *)
(* variant has been assigned to some user.                                 *)
C29_FallbackMakesProgress ==
    ( /\ experiments # {}
      /\ status = "running"
      /\ experiment_type = "personalized"
      /\ SumOver(variants, variant_ids, "impressions")
             >= Len(variant_ids) * WarmupPulls )
    => /\ SumOver(variants, variant_ids, "arm_pulls")
              >= Len(variant_ids) * WarmupPulls
       /\ \A id \in DOMAIN variants : variants[id].impressions > 0

(* C30: static cumulative-weight selection never selects a variant whose   *)
(* weight is 0, whatever the bucket value (0 included) and whatever the    *)
(* position of the zero-weight variant in the order.                       *)
C30_NeverSelectsZeroWeight ==
    /\ ret.op = "get_random_assignment" => variants[ret.val].weight > 0
    /\ \A user_id \in Users :
           redis_assignment[user_id] # NoAssignment
               => DictValue(redis_test.config.variants,
                            redis_assignment[user_id].variant).traffic_split > 0

====
